---- MODULE Spec2Model ----
(***************************************************************************)
(* Interstellar dust extinction laws of extinction.pyx: CCM89, OD94, GCC09 *)
(* and the Fitzpatrick (1999) spline law.                                  *)
(*                                                                         *)
(* Numbers.  A C double is modelled as a fixed-point integer counting      *)
(* millionths (1.1 is 1100000); every product and quotient is rounded to   *)
(* the nearest millionth, as IEEE arithmetic rounds every operation to the *)
(* nearest double.  Wavelengths are whole Angstroms.  Division follows     *)
(* Cython's default (cdivision=False; the source sets no directive): a     *)
(* zero divisor raises ZeroDivisionError.                                  *)
(***************************************************************************)
EXTENDS Integers, Sequences, FiniteSets, TLC

VARIABLES
    f99_r_v,      \* F99Extinction instance attribute self.r_v
    f99_spline,   \* F99Extinction instance attribute self._spline
    XKNOTS,       \* class attribute F99Extinction._XKNOTS
    call,         \* the caller's current call: arguments, buffer, outcome
    coef          \* the C locals a, b as a coefficient selector left them

vars == <<f99_r_v, f99_spline, XKNOTS, call, coef>>

----------------------------------------------------------------------------
(* Fixed-point arithmetic standing for the C double operators * and /.     *)

Unit == 1000 * 1000

Abs(a) == IF a < 0 THEN 0 - a ELSE a

Sgn(a, b) == IF (a < 0) # (b < 0) THEN 0 - 1 ELSE 1

\* a * b for a, b >= 0, rounded to the nearest millionth; the operands are
\* split in thousands so that no intermediate exceeds 32 bits.
MulAbs(a, b) ==
    LET ah == a \div 1000
        al == a % 1000
        bh == b \div 1000
        bl == b % 1000
        M == ah * bl + al * bh
        L == al * bl
    IN  ah * bh + (M + (L + 500000) \div 1000) \div 1000

Mul(a, b) == Sgn(a, b) * MulAbs(Abs(a), Abs(b))

\* Long division: n more decimal digits of r / b appended to q, then rounded.
RECURSIVE LongDiv(_, _, _, _)
LongDiv(q, r, b, n) ==
    IF n = 0
    THEN q + (IF 2 * r >= b THEN 1 ELSE 0)
    ELSE LongDiv(q * 10 + (r * 10) \div b, (r * 10) % b, b, n - 1)

\* a / b for a >= 0, b > 0 in millionths; a divisor too wide for the digit
\* step is first shortened by one digit.
DivAbs(a, b) ==
    IF b < 200000000
    THEN LongDiv(a \div b, a % b, b, 6)
    ELSE LET c == b \div 10 IN LongDiv(a \div c, a % c, c, 5)

\* The C operator / on a nonzero divisor.
Div(a, b) == Sgn(a, b) * DivAbs(Abs(a), Abs(b))

\* (m * 10^-k) * v: a coefficient written in scientific notation, m being
\* its digits in millionths (2.13572e-04 is m = 213572, k = 3).
MulE(m, k, v) ==
    LET p == Mul(m, v) IN Sgn(p, 1) * ((Abs(p) + (10^k) \div 2) \div (10^k))

\* IEEE values outside the finite range, as numpy produces them.
PosInf == 2147483647

NaN == -2147483647

\* numpy's array division c / w, which raises nothing: c / inf is 0 and
\* c / 0 is inf (with a RuntimeWarning).
np_div(c, w) ==
    IF w = PosInf THEN 0 ELSE IF w = 0 THEN PosInf ELSE Div(c, w)

----------------------------------------------------------------------------
(* Cardelli, Clayton & Mathis (1989).  The selectors write the C locals a  *)
(* and b through pointers; here they take the record ab holding both and   *)
(* return it updated.  br names the branch function that ran and ncorr     *)
(* counts the executions of the x > 5.9 block (control-flow history).      *)

\* C pow(x, 1.61), tabulated at the sampled infrared wavenumbers.
Pow161(x) ==
    CASE x = 250000 -> 107321
      [] x = 300000 -> 143935
      [] x = 500000 -> 327598
      [] x = 750000 -> 629287
      [] x = 1000000 -> 1000000
      [] x = 1099999 -> 1165847

\* Mutant: the infrared branch forgets to write b.
ccm89ab_ir_invum_no_b(x, ab) ==
    [ab EXCEPT !.a = Mul(574000, Pow161(x)), !.br = "ccm89ab_ir_invum",
               !.ncorr = 0]

ccm89ab_ir_invum(x, ab) ==
    LET y == Pow161(x)
    IN  [a |-> Mul(574000, y), b |-> Mul(-527000, y),
         br |-> "ccm89ab_ir_invum", ncorr |-> 0]

ccm89ab_opt_invum(x, ab) ==
    LET y == x - 1820000
    IN  [a |-> Mul(Mul(Mul(Mul(Mul(Mul(Mul(329990, y) - 775300, y) + 19790, y)
                  + 720850, y) - 24270, y) - 504470, y) + 176990, y) + Unit,
         b |-> Mul(Mul(Mul(Mul(Mul(Mul(Mul(-2090020, y) + 5302600, y) - 622510, y)
                  - 5384340, y) + 1072330, y) + 2283050, y) + 1413380, y),
         br |-> "ccm89ab_opt_invum", ncorr |-> 0]

\* Mutant: the correction block guarded by x >= 5.9.
ccm89ab_uv_invum_ge(x, ab) ==
    LET ya == x - 4670000
        a0 == 1752000 - Mul(316000, x) - Div(104000, Mul(ya, ya) + 341000)
        yb == x - 4620000
        b0 == -3090000 + Mul(1825000, x) + Div(1206000, Mul(yb, yb) + 263000)
        y  == x - 5900000
        y2 == Mul(y, y)
        y3 == Mul(y2, y)
    IN  IF x >= 5900000
        THEN [a |-> a0 + (Mul(-44730, y2) - Mul(9779, y3)),
              b |-> b0 + (Mul(213000, y2) + Mul(120700, y3)),
              br |-> "ccm89ab_uv_invum", ncorr |-> 1]
        ELSE [a |-> a0, b |-> b0, br |-> "ccm89ab_uv_invum", ncorr |-> 0]

ccm89ab_uv_invum(x, ab) ==
    LET ya == x - 4670000
        a0 == 1752000 - Mul(316000, x) - Div(104000, Mul(ya, ya) + 341000)
        yb == x - 4620000
        b0 == -3090000 + Mul(1825000, x) + Div(1206000, Mul(yb, yb) + 263000)
        y  == x - 5900000
        y2 == Mul(y, y)
        y3 == Mul(y2, y)
    IN  IF x > 5900000
        THEN [a |-> a0 + (Mul(-44730, y2) - Mul(9779, y3)),
              b |-> b0 + (Mul(213000, y2) + Mul(120700, y3)),
              br |-> "ccm89ab_uv_invum", ncorr |-> 1]
        ELSE [a |-> a0, b |-> b0, br |-> "ccm89ab_uv_invum", ncorr |-> 0]

ccm89ab_fuv_invum(x, ab) ==
    LET y  == x - 8000000
        y2 == Mul(y, y)
        y3 == Mul(y2, y)
    IN  [a |-> Mul(-70000, y3) + Mul(137000, y2) - Mul(628000, y) - 1073000,
         b |-> Mul(374000, y3) - Mul(420000, y2) + Mul(4257000, y) + 13670000,
         br |-> "ccm89ab_fuv_invum", ncorr |-> 0]

\* Mutant: the optical threshold compared with <=.
ccm89ab_invum_le(x, ab) ==
    IF x < 1100000 THEN ccm89ab_ir_invum(x, ab)
    ELSE IF x <= 3300000 THEN ccm89ab_opt_invum(x, ab)
    ELSE IF x < 8000000 THEN ccm89ab_uv_invum(x, ab)
    ELSE ccm89ab_fuv_invum(x, ab)

ccm89ab_invum(x, ab) ==
    IF x < 1100000 THEN ccm89ab_ir_invum(x, ab)
    ELSE IF x < 3300000 THEN ccm89ab_opt_invum(x, ab)
    ELSE IF x < 8000000 THEN ccm89ab_uv_invum(x, ab)
    ELSE ccm89ab_fuv_invum(x, ab)

----------------------------------------------------------------------------
(* O'Donnell (1994) and Gordon, Clayton, Clayton & Calzetti (2009).        *)

od94ab_opt_invum(x, ab) ==
    LET y == x - 1820000
    IN  [a |-> Mul(Mul(Mul(Mul(Mul(Mul(Mul(Mul(-505000, y) + 1647000, y) - 827000, y)
                  - 1718000, y) + 1137000, y) + 701000, y) - 609000, y)
                  + 104000, y) + Unit,
         b |-> Mul(Mul(Mul(Mul(Mul(Mul(Mul(Mul(3347000, y) - 10805000, y) + 5491000, y)
                  + 11102000, y) - 7985000, y) - 3989000, y) + 2908000, y)
                  + 1952000, y),
         br |-> "od94ab_opt_invum", ncorr |-> 0]

\* Mutant: the optical threshold compared with <=.
od94ab_invum_le(x, ab) ==
    IF x < 1100000 THEN ccm89ab_ir_invum(x, ab)
    ELSE IF x <= 3300000 THEN od94ab_opt_invum(x, ab)
    ELSE IF x < 8000000 THEN ccm89ab_uv_invum(x, ab)
    ELSE ccm89ab_fuv_invum(x, ab)

od94ab_invum(x, ab) ==
    IF x < 1100000 THEN ccm89ab_ir_invum(x, ab)
    ELSE IF x < 3300000 THEN od94ab_opt_invum(x, ab)
    ELSE IF x < 8000000 THEN ccm89ab_uv_invum(x, ab)
    ELSE ccm89ab_fuv_invum(x, ab)

gcc09ab_uv_invum(x, ab) ==
    LET ya == x - 4570000
        a0 == 1896000 - Mul(372000, x) - Div(10800, Mul(ya, ya) + 42200)
        yb == x - 4590000
        b0 == -3503000 + Mul(2057000, x)
                + Div(718000, Mul(yb, yb) + Mul(53000, 3100000))
        y  == x - 5900000
        y2 == Mul(y, y)
        y3 == Mul(y, y2)
    IN  IF x > 5900000
        THEN [a |-> a0 + (Mul(-110000, y2) - Mul(9900, y3)),
              b |-> b0 + (Mul(537000, y2) + Mul(53000, y3)),
              br |-> "gcc09ab_uv_invum", ncorr |-> 1]
        ELSE [a |-> a0, b |-> b0, br |-> "gcc09ab_uv_invum", ncorr |-> 0]

gcc09ab_invum(x, ab) ==
    IF x < 1100000 THEN ccm89ab_ir_invum(x, ab)
    ELSE IF x < 3300000 THEN od94ab_opt_invum(x, ab)
    ELSE gcc09ab_uv_invum(x, ab)

----------------------------------------------------------------------------
(* The public law functions: one loop over the input per call.             *)

Raised(e, buf) ==
    [status |-> "raised", exc |-> e, out |-> <<>>, path |-> <<>>, buf |-> buf]

Selector(law, x, s) ==
    CASE law = "ccm89" -> ccm89ab_invum(x, s)
      [] law = "od94"  -> od94ab_invum(x, s)
      [] law = "gcc09" -> gcc09ab_invum(x, s)

\* for i in range(n): <law>ab_invum(x[i] or 1e4/wave[i], &a, &b);
\*                    result[i] = a_v * (a + b / r_v)
\* st holds the locals a, b and the result array filled so far.
RECURSIVE LawLoop(_, _, _, _, _, _, _)
LawLoop(law, aa, arr, a_v, r_v, i, st) ==
    IF i > Len(arr)
    THEN [status |-> "returned", exc |-> "none", out |-> st.out,
          path |-> st.path, buf |-> arr]
    ELSE IF aa /\ arr[i] = 0
    THEN Raised("ZeroDivisionError", arr)
    ELSE LET x == IF aa THEN Div(10000, arr[i]) ELSE arr[i]
             s == Selector(law, x, st.ab)
         IN  IF r_v = 0
             THEN Raised("ZeroDivisionError", arr)
             ELSE LawLoop(law, aa, arr, a_v, r_v, i + 1,
                     [ab   |-> s,
                      out  |-> Append(st.out, Mul(a_v, s.a + Div(s.b, r_v))),
                      path |-> Append(st.path, [br |-> s.br, ncorr |-> s.ncorr])])

\* a = 0.0; b = 0.0; result = np.empty(n)
LoopStart ==
    [ab |-> [a |-> 0, b |-> 0, br |-> "none", ncorr |-> 0],
     out |-> <<>>, path |-> <<>>]

ccm89_invum(x, a_v, r_v) == LawLoop("ccm89", FALSE, x, a_v, r_v, 1, LoopStart)

ccm89_aa(wave, a_v, r_v) == LawLoop("ccm89", TRUE, wave, a_v, r_v, 1, LoopStart)

od94_invum(x, a_v, r_v) == LawLoop("od94", FALSE, x, a_v, r_v, 1, LoopStart)

od94_aa(wave, a_v, r_v) == LawLoop("od94", TRUE, wave, a_v, r_v, 1, LoopStart)

gcc09_aa(wave, a_v, r_v) == LawLoop("gcc09", TRUE, wave, a_v, r_v, 1, LoopStart)

\* The names the module binds at import.
Exports ==
    {"ccm89_invum", "ccm89_aa", "ccm89", "od94_invum", "od94_aa", "od94",
     "gcc09_aa", "gcc09", "F99Extinction", "f99",
     "_f99kknots", "_fm07uv", "_fm07kknots"}

\* extinction.<name>(arr, a_v, r_v): attribute lookup on the module, then
\* the call.
Invoke(name, arr, a_v, r_v) ==
    IF name \notin Exports THEN Raised("AttributeError", arr)
    ELSE CASE name = "ccm89_invum" -> ccm89_invum(arr, a_v, r_v)
           [] name = "ccm89_aa"    -> ccm89_aa(arr, a_v, r_v)
           [] name = "od94_invum"  -> od94_invum(arr, a_v, r_v)
           [] name = "od94_aa"     -> od94_aa(arr, a_v, r_v)
           [] name = "gcc09_aa"    -> gcc09_aa(arr, a_v, r_v)

----------------------------------------------------------------------------
(* Fitzpatrick (1999).                                                     *)

F99_X0 == 4596000

F99_GAMMA == 990000

F99_C3 == 3230000

F99_C4 == 410000

F99_C5 == 5900000

F99_X02 == Mul(F99_X0, F99_X0)

F99_GAMMA2 == Mul(F99_GAMMA, F99_GAMMA)

\* Mutant: the parentheses of the return expression dropped,
\* a_v * 1. + k / r_v.
_f99uv_noparen(wave, a_v, r_v) ==
    IF r_v = 0 \/ wave = 0 THEN 0
    ELSE LET c2 == -824000 + Div(4717000, r_v)
             c1 == 2030000 - Mul(3007000, c2)
             x  == Div(10000, wave)
             x2 == Mul(x, x)
             y  == x2 - F99_X02
             d  == Div(x2, Mul(y, y) + Mul(x2, F99_GAMMA2))
             k0 == c1 + Mul(c2, x) + Mul(F99_C3, d)
             yc == x - F99_C5
             y2 == Mul(yc, yc)
             k  == IF x >= F99_C5
                   THEN k0 + Mul(F99_C4, Mul(539200, y2) + Mul(Mul(56440, y2), yc))
                   ELSE k0
         IN  Mul(a_v, Unit) + Div(k, r_v)

\* cdef double _f99uv(wave, a_v, r_v), declared without an except clause: a
\* ZeroDivisionError raised inside it cannot propagate; it is written out
\* as unraisable and the function returns 0.
_f99uv(wave, a_v, r_v) ==
    IF r_v = 0 \/ wave = 0 THEN 0
    ELSE LET c2 == -824000 + Div(4717000, r_v)
             c1 == 2030000 - Mul(3007000, c2)
             x  == Div(10000, wave)
             x2 == Mul(x, x)
             y  == x2 - F99_X02
             d  == Div(x2, Mul(y, y) + Mul(x2, F99_GAMMA2))
             k0 == c1 + Mul(c2, x) + Mul(F99_C3, d)
             yc == x - F99_C5
             y2 == Mul(yc, yc)
             k  == IF x >= F99_C5
                   THEN k0 + Mul(F99_C4, Mul(539200, y2) + Mul(Mul(56440, y2), yc))
                   ELSE k0
         IN  Mul(a_v, Unit + Div(k, r_v))

\* Mutant: the last two knots computed with gamma in place of gamma^2.
_f99kknots_gamma(xknots, r_v) ==
    IF r_v = 0 THEN [exc |-> "ZeroDivisionError", kknots |-> <<>>]
    ELSE LET c2  == -824000 + Div(4717000, r_v)
             c1  == 2030000 - Mul(3007000, c2)
             rv2 == Mul(r_v, r_v)
             uvk(i) ==
                 LET x2 == Mul(xknots[i], xknots[i])
                     y  == x2 - F99_X02
                     d  == Div(x2, Mul(y, y) + Mul(x2, F99_GAMMA))
                 IN  c1 + Mul(c2, xknots[i]) + Mul(F99_C3, d)
         IN  [exc |-> "none",
              kknots |->
                [i \in 0..8 |->
                  CASE i = 0 -> 0 - r_v
                    [] i = 1 -> Div(Mul(264690, r_v), 3100000) - r_v
                    [] i = 2 -> Div(Mul(829250, r_v), 3100000) - r_v
                    [] i = 3 -> -422809 + Mul(1002700, r_v)
                                  + MulE(213572, 3, rv2) - r_v
                    [] i = 4 -> -51354 + Mul(1002160, r_v)
                                  - MulE(735778, 4, rv2) - r_v
                    [] i = 5 -> 700127 + Mul(1001840, r_v)
                                  - MulE(332598, 4, rv2) - r_v
                    [] i = 6 -> 1194560 + Mul(1017070, r_v)
                                  - MulE(546959, 2, rv2)
                                  + Mul(MulE(797809, 3, rv2), r_v)
                                  - Mul(MulE(445636, 4, rv2), rv2) - r_v
                    [] i \in 7..8 -> uvk(i)]]

\* def _f99kknots(xknots, r_v): the nine knot k-values, or the exception of
\* the division 4.717 / r_v.
_f99kknots(xknots, r_v) ==
    IF r_v = 0 THEN [exc |-> "ZeroDivisionError", kknots |-> <<>>]
    ELSE LET c2  == -824000 + Div(4717000, r_v)
             c1  == 2030000 - Mul(3007000, c2)
             rv2 == Mul(r_v, r_v)
             uvk(i) ==
                 LET x2 == Mul(xknots[i], xknots[i])
                     y  == x2 - F99_X02
                     d  == Div(x2, Mul(y, y) + Mul(x2, F99_GAMMA2))
                 IN  c1 + Mul(c2, xknots[i]) + Mul(F99_C3, d)
         IN  [exc |-> "none",
              kknots |->
                [i \in 0..8 |->
                  CASE i = 0 -> 0 - r_v
                    [] i = 1 -> Div(Mul(264690, r_v), 3100000) - r_v
                    [] i = 2 -> Div(Mul(829250, r_v), 3100000) - r_v
                    [] i = 3 -> -422809 + Mul(1002700, r_v)
                                  + MulE(213572, 3, rv2) - r_v
                    [] i = 4 -> -51354 + Mul(1002160, r_v)
                                  - MulE(735778, 4, rv2) - r_v
                    [] i = 5 -> 700127 + Mul(1001840, r_v)
                                  - MulE(332598, 4, rv2) - r_v
                    [] i = 6 -> 1194560 + Mul(1017070, r_v)
                                  - MulE(546959, 2, rv2)
                                  + Mul(MulE(797809, 3, rv2), r_v)
                                  - Mul(MulE(445636, 4, rv2), rv2) - r_v
                    [] i \in 7..8 -> uvk(i)]]

\* The wavelengths of the class attribute _XKNOTS, index 0 being np.inf.
KnotWaves ==
    [i \in 0..8 |->
        CASE i = 0 -> PosInf [] i = 1 -> 26500 [] i = 2 -> 12200
          [] i = 3 -> 6000   [] i = 4 -> 5470  [] i = 5 -> 4670
          [] i = 6 -> 4110   [] i = 7 -> 2700  [] i = 8 -> 2600]

\* scipy's splmake(xk, yk, order=3): the interpolant of the knots.
splmake(xk, kk) == [xk |-> xk, kk |-> kk]

\* scipy's spleval(spline, xq) at one query.  The interpolant passes through
\* every knot; between two knots its cubic is stood for by the chord, and
\* beyond the last knot by the last chord.  A non-finite query gives NaN.
spleval(spline, xq) ==
    LET xk == spline.xk
        kk == spline.kk
    IN  IF xq = PosInf \/ xq = NaN THEN NaN
        ELSE IF \E j \in 0..8 : xk[j] = xq
        THEN kk[CHOOSE j \in 0..8 : xk[j] = xq]
        ELSE LET j == IF xq > xk[8] THEN 7
                      ELSE CHOOSE n \in 0..7 : xk[n] < xq /\ xq < xk[n + 1]
             IN  kk[j] + Div(Mul(kk[j + 1] - kk[j], xq - xk[j]), xk[j + 1] - xk[j])

\* The loop of F99Extinction.__call__ over out, which holds k on entry.
RECURSIVE F99Loop(_, _, _, _, _, _, _)
F99Loop(wave, a_v, r_v, ebv, i, out, path) ==
    IF i > Len(wave)
    THEN [status |-> "returned", exc |-> "none", out |-> out, path |-> path,
          buf |-> wave]
    ELSE IF wave[i] > 2700
    THEN F99Loop(wave, a_v, r_v, ebv, i + 1,
                 [out EXCEPT ![i] = Mul(ebv, out[i] + r_v)],
                 Append(path, [br |-> "spline", ncorr |-> 0]))
    ELSE F99Loop(wave, a_v, r_v, ebv, i + 1,
                 [out EXCEPT ![i] = _f99uv(wave[i], a_v, r_v)],
                 Append(path, [br |-> "_f99uv", ncorr |-> 0]))

\* F99Extinction.__call__(self, wave, a_v) on an instance with attributes
\* self_r_v and self_spline.
F99_call(self_r_v, self_spline, wave, a_v) ==
    IF self_r_v = 0 THEN Raised("ZeroDivisionError", wave)
    ELSE LET r_v == self_r_v
             ebv == Div(a_v, r_v)
             out == [i \in 1..Len(wave) |->
                        spleval(self_spline, np_div(10000, wave[i]))]
         IN  F99Loop(wave, a_v, r_v, ebv, 1, out, <<>>)

\* F99Extinction.__init__(self, r_v): the attributes of the new instance,
\* or the exception that ends the construction.
F99_init(xknots, r_v) ==
    LET t == _f99kknots(xknots, r_v)
    IN  IF t.exc # "none"
        THEN [exc |-> t.exc, r_v |-> r_v, spline |-> <<>>]
        ELSE [exc |-> "none", r_v |-> r_v, spline |-> splmake(xknots, t.kknots)]

----------------------------------------------------------------------------
(* The state machine: a sequential caller of the module.  Each call is one *)
(* step; Return is the caller dropping the result before its next call.    *)

MaxLen == 2

MaxQ == 44

\* Sampled wavenumbers (inverse microns) for the _invum forms.
XS == {300000, 1099999, 1100000, 3299999, 3300000,
       5900000, 5900001, 7999999, 8000000, 10000000}

\* Sampled wavelengths (Angstrom) for the _aa forms and F99Extinction.
WS == {0, 1250, 1500, 2700, 2701, 5500, 10000}

\* Sampled A_V, R_V of a law call, and R_V of an F99Extinction instance.
AVS == {0, 1000000}

LawRV == {0, 3100000}

InstRV == {2500000, 3100000}

\* Wavenumbers on which the coefficient selectors are applied directly.
ABX == {q * 250000 : q \in 1..MaxQ} \cup XS

Laws == {"ccm89", "od94", "gcc09"}

InvumNames == {"ccm89_invum", "od94_invum", "gcc09_invum"}

AaNames == {"ccm89_aa", "od94_aa", "gcc09_aa"}

Arrays(S) == UNION {[1..n -> S] : n \in 0..MaxLen}

Idle ==
    [fn |-> "none", arg |-> <<>>, a_v |-> 0, r_v |-> 0, status |-> "idle",
     exc |-> "none", out |-> <<>>, path |-> <<>>, buf |-> <<>>]

Made(fn, arg, a_v, r_v, res) ==
    [fn |-> fn, arg |-> arg, a_v |-> a_v, r_v |-> r_v, status |-> res.status,
     exc |-> res.exc, out |-> res.out, path |-> res.path, buf |-> res.buf]

NoCoef ==
    [law |-> "none", x |-> 0,
     ab |-> [a |-> 0, b |-> 0, br |-> "none", ncorr |-> 0]]

\* Import of the module: the class attribute, then f99 = F99Extinction(3.1).
Init ==
    /\ XKNOTS = [i \in 0..8 |-> np_div(10000, KnotWaves[i])]
    /\ f99_r_v = F99_init([i \in 0..8 |-> np_div(10000, KnotWaves[i])], 3100000).r_v
    /\ f99_spline =
         F99_init([i \in 0..8 |-> np_div(10000, KnotWaves[i])], 3100000).spline
    /\ call = Idle
    /\ coef = NoCoef

\* extinction.<name>(arr, a_v, r_v) for a name the module binds.
CallLaw ==
    /\ call = Idle
    /\ \E name \in (InvumNames \cup AaNames) \cap Exports, a_v \in AVS, r_v \in LawRV :
         \E arr \in Arrays(IF name \in InvumNames THEN XS ELSE WS) :
            call' = Made(name, arr, a_v, r_v, Invoke(name, arr, a_v, r_v))
    /\ UNCHANGED <<f99_r_v, f99_spline, XKNOTS, coef>>

\* extinction.<name> for a name the module does not bind: the attribute
\* lookup raises before any argument is passed.
LookupFails ==
    /\ call = Idle
    /\ \E name \in (InvumNames \cup AaNames) \ Exports :
         call' = Made(name, <<>>, 0, 0, Invoke(name, <<>>, 0, 0))
    /\ UNCHANGED <<f99_r_v, f99_spline, XKNOTS, coef>>

\* F99Extinction(r_v): on success the caller's instance is the new one.
Construct ==
    /\ call = Idle
    /\ \E r_v \in InstRV \cup {0} :
         LET n == F99_init(XKNOTS, r_v)
         IN  IF n.exc # "none"
             THEN /\ call' = Made("F99Extinction", <<>>, 0, r_v, Raised(n.exc, <<>>))
                  /\ UNCHANGED <<f99_r_v, f99_spline>>
             ELSE /\ call' = [Idle EXCEPT !.fn = "F99Extinction", !.r_v = r_v,
                                          !.status = "returned"]
                  /\ f99_r_v' = n.r_v
                  /\ f99_spline' = n.spline
    /\ UNCHANGED <<XKNOTS, coef>>

\* instance(wave, a_v)
CallF99 ==
    /\ call = Idle
    /\ \E wave \in Arrays(WS), a_v \in AVS :
         call' = Made("F99Extinction.__call__", wave, a_v, f99_r_v,
                      F99_call(f99_r_v, f99_spline, wave, a_v))
    /\ UNCHANGED <<f99_r_v, f99_spline, XKNOTS, coef>>

\* instance.r_v = v: r_v is a plain public attribute.
SetRv ==
    /\ call = Idle
    /\ \E v \in InstRV : f99_r_v' = v
    /\ UNCHANGED <<f99_spline, XKNOTS, call, coef>>

\* The caller drops the result.
Return ==
    /\ call # Idle
    /\ call' = Idle
    /\ UNCHANGED <<f99_r_v, f99_spline, XKNOTS, coef>>

Next == CallLaw \/ LookupFails \/ Construct \/ CallF99 \/ SetRv \/ Return

Spec == Init /\ [][Next]_vars

\* One evaluation of a law's coefficient selector at a wavenumber, the
\* locals a, b holding what the previous evaluation left.
EvalAB(law, x) ==
    /\ coef' = [law |-> law, x |-> x, ab |-> Selector(law, x, coef.ab)]
    /\ UNCHANGED <<f99_r_v, f99_spline, XKNOTS, call>>

NextAB == \E law \in Laws, x \in ABX : EvalAB(law, x)

SpecAB == Init /\ [][NextAB]_vars

----------------------------------------------------------------------------
(* Properties.                                                             *)

LawNames == (InvumNames \cup AaNames) \cap Exports

Returned == call.status = "returned"

IsF99Call == call.fn = "F99Extinction.__call__"

NonFinite(v) == v \in {PosInf, 0 - PosInf, NaN}

\* The current call repeated on its i-th sample alone.
Single(i) ==
    IF IsF99Call
    THEN F99_call(call.r_v, f99_spline, <<call.arg[i]>>, call.a_v)
    ELSE Invoke(call.fn, <<call.arg[i]>>, call.a_v, call.r_v)

\* C1: in F99Extinction.__call__ every sample at exactly 2700 Angstrom is
\* produced by the spline branch, (a_v / r_v) * (k_spline + r_v), and only
\* samples strictly below 2700 use the analytic function _f99uv.
C1_Boundary2700UsesSpline ==
    (IsF99Call /\ Returned) =>
        \A i \in 1..Len(call.arg) :
            /\ call.arg[i] = 2700 =>
                 /\ call.path[i].br = "spline"
                 /\ call.out[i] =
                      Mul(Div(call.a_v, call.r_v),
                          spleval(f99_spline, np_div(10000, 2700)) + call.r_v)
            /\ call.path[i].br = "_f99uv" => call.arg[i] < 2700

\* The band the thresholds 1.1, 3.3, 8.0 assign to x, boundary values
\* falling into the higher band.
Band(x) ==
    IF x < 1100000 THEN "infrared"
    ELSE IF x < 3300000 THEN "optical"
    ELSE IF x < 8000000 THEN "ultraviolet"
    ELSE "far-UV"

BranchBand(br) ==
    CASE br = "ccm89ab_ir_invum" -> "infrared"
      [] br \in {"ccm89ab_opt_invum", "od94ab_opt_invum"} -> "optical"
      [] br \in {"ccm89ab_uv_invum", "gcc09ab_uv_invum"} -> "ultraviolet"
      [] br = "ccm89ab_fuv_invum" -> "far-UV"
      [] OTHER -> "none"

\* C2: each of ccm89ab_invum, od94ab_invum, gcc09ab_invum runs exactly the
\* branch of the band of x (strict < at each upper threshold); for GCC09
\* every x >= 3.3, x >= 8.0 included, runs the GCC09 ultraviolet branch.
C2_OneBranchPerBand ==
    coef.law # "none" =>
        IF coef.law = "gcc09" /\ coef.x >= 3300000
        THEN coef.ab.br = "gcc09ab_uv_invum"
        ELSE /\ BranchBand(coef.ab.br) = Band(coef.x)
             /\ coef.ab.br # "gcc09ab_uv_invum"

C2_Witness ==
    /\ coef.law = "ccm89" /\ coef.x = 1100000
    /\ coef.ab.br = "ccm89ab_opt_invum"

\* C3: od94_invum and ccm89_invum return the same value, from the same
\* branch function, at every sample with x < 1.1 or x >= 3.3; they can
\* differ in branch function only where 1.1 <= x < 3.3.
C3_Od94AgreesOffOptical ==
    (call.fn \in {"ccm89_invum", "od94_invum"} /\ Returned) =>
        \A i \in 1..Len(call.arg) :
            LET other == Invoke(IF call.fn = "ccm89_invum" THEN "od94_invum"
                                ELSE "ccm89_invum",
                                <<call.arg[i]>>, call.a_v, call.r_v)
            IN  (call.arg[i] < 1100000 \/ call.arg[i] >= 3300000) =>
                    /\ other.status = "returned"
                    /\ call.out[i] = other.out[1]
                    /\ call.path[i].br = other.path[1].br

C3_Witness ==
    /\ call.fn = "od94_invum" /\ Returned
    /\ call.arg = <<300000, 7999999>>
    /\ call.a_v = 1000000

InvumOf(name) ==
    CASE name = "ccm89_aa" -> "ccm89_invum"
      [] name = "od94_aa"  -> "od94_invum"
      [] name = "gcc09_aa" -> "gcc09_invum"

\* C4: every law has both forms, and <law>_aa(wave, a_v, r_v) equals
\* <law>_invum(1e4/wave, a_v, r_v) element by element.
C4_BothFormsRoundTrip ==
    /\ call.fn \in InvumNames \cup AaNames => call.exc # "AttributeError"
    /\ (call.fn \in AaNames /\ Returned) =>
          LET inv == Invoke(InvumOf(call.fn),
                            [i \in 1..Len(call.arg) |-> np_div(10000, call.arg[i])],
                            call.a_v, call.r_v)
          IN  inv.status = "returned" /\ inv.out = call.out

\* C5: a zero wavelength sample, or r_v = 0, never ends a call in a raised
\* exception: the call returns an array whose affected entries are
\* infinite or NaN.
C5_ZeroNeverRaises ==
    LET zeroWave == /\ call.fn \in AaNames \cup {"F99Extinction.__call__"}
                    /\ \E i \in 1..Len(call.arg) : call.arg[i] = 0
        zeroRv   == /\ call.fn \in InvumNames \cup AaNames \cup {"F99Extinction"}
                    /\ call.status # "idle"
                    /\ call.exc # "AttributeError"
                    /\ call.r_v = 0
    IN  (zeroWave \/ zeroRv) =>
            /\ Returned
            /\ \A i \in 1..Len(call.arg) :
                  (call.arg[i] = 0 \/ call.r_v = 0) => NonFinite(call.out[i])

\* The rational terms of the ultraviolet branch and its cubic correction in
\* y = x - 5.9, as the two laws state them.
UvRational(law, x) ==
    IF law = "gcc09"
    THEN [a |-> 1896000 - Mul(372000, x)
                  - Div(10800, Mul(x - 4570000, x - 4570000) + 42200),
          b |-> -3503000 + Mul(2057000, x)
                  + Div(718000, Mul(x - 4590000, x - 4590000) + 164300)]
    ELSE [a |-> 1752000 - Mul(316000, x)
                  - Div(104000, Mul(x - 4670000, x - 4670000) + 341000),
          b |-> -3090000 + Mul(1825000, x)
                  + Div(1206000, Mul(x - 4620000, x - 4620000) + 263000)]

UvCubic(law, x) ==
    LET y  == x - 5900000
        y2 == Mul(y, y)
        y3 == Mul(y2, y)
    IN  IF law = "gcc09"
        THEN [a |-> Mul(-110000, y2) - Mul(9900, y3),
              b |-> Mul(537000, y2) + Mul(53000, y3)]
        ELSE [a |-> Mul(-44730, y2) - Mul(9779, y3),
              b |-> Mul(213000, y2) + Mul(120700, y3)]

\* C6: in ccm89ab_uv_invum and gcc09ab_uv_invum the cubic correction is
\* added if and only if x > 5.9: up to and at 5.9 a and b are the rational
\* terms alone, above 5.9 the correction is added exactly once.
C6_CorrectionIffAbove59 ==
    coef.ab.br \in {"ccm89ab_uv_invum", "gcc09ab_uv_invum"} =>
        LET r == UvRational(coef.law, coef.x)
            c == UvCubic(coef.law, coef.x)
        IN  IF coef.x > 5900000
            THEN /\ coef.ab.ncorr = 1
                 /\ coef.ab.a = r.a + c.a
                 /\ coef.ab.b = r.b + c.b
            ELSE /\ coef.ab.ncorr = 0
                 /\ coef.ab.a = r.a
                 /\ coef.ab.b = r.b

C6_Witness ==
    /\ coef.ab.br = "ccm89ab_uv_invum"
    /\ coef.x = 5900000
    /\ coef.ab.ncorr = 0

C8_SameShapeElementwise ==
    call.fn \in LawNames \cup {"F99Extinction.__call__"} =>
        /\ Returned =>
              /\ Len(call.out) = Len(call.arg)
              /\ \A i \in 1..Len(call.arg) :
                    /\ Single(i).status = "returned"
                    /\ call.out[i] = Single(i).out[1]
        /\ call.arg = <<>> => (Returned /\ call.out = <<>>)

C8_Witness ==
    /\ call.fn = "ccm89_invum" /\ Returned
    /\ call.arg = <<8000000, 300000>>
    /\ call.a_v = 1000000
    /\ Len(call.out) = 2

\* C9: the r_v that __call__ uses is the r_v from which the cached spline's
\* knot table was built.
C9_SplineBuiltFromUsedRv ==
    IsF99Call =>
        f99_spline = splmake(XKNOTS, _f99kknots(XKNOTS, call.r_v).kknots)

\* C9, second half (holds): __call__ modifies neither the instance's r_v,
\* nor its spline, nor the class knot x-values, nor the caller's array.
C9_CallLeavesStateAlone ==
    [][IsF99Call' =>
          /\ UNCHANGED <<f99_r_v, f99_spline, XKNOTS>>
          /\ call'.buf = call'.arg]_vars

C10AV == {0, 1000000, 2500000}

AbsDiff(u, v) == IF u < v THEN v - u ELSE u - v

\* The knot table of an instance just constructed: nine strictly increasing
\* x-values starting at 0, and _f99uv(2700, a_v, r_v) being exactly
\* a_v * (1 + k_knot7 / r_v), the formula of _f99uv evaluated on knot 7.
C10_Knot7IsUvFormula ==
    /\ DOMAIN XKNOTS = 0..8
    /\ XKNOTS[0] = 0
    /\ \A i \in 0..7 : XKNOTS[i] < XKNOTS[i + 1]
    /\ XKNOTS[7] = Div(10000, 2700)
    /\ f99_spline.xk = XKNOTS
    /\ \A a_v \in C10AV :
          _f99uv(2700, a_v, call.r_v) =
              Mul(a_v, Unit + Div(f99_spline.kk[7], call.r_v))

\* C10 as stated: after construction with a nonzero r_v the spline-branch
\* value (a_v / r_v) * (k_knot7 + r_v) equals _f99uv(2700, a_v, r_v).
C10_BranchesEqualAt2700 ==
    (call.fn = "F99Extinction" /\ Returned) =>
        /\ C10_Knot7IsUvFormula
        /\ \A a_v \in C10AV :
              Mul(Div(a_v, call.r_v), f99_spline.kk[7] + call.r_v)
                  = _f99uv(2700, a_v, call.r_v)

\* C10 as amended: the two values agree within 0.001 mag; they are the same
\* quantity computed in two orders of rounded operations.
C10_BranchesAgreeAt2700 ==
    (call.fn = "F99Extinction" /\ Returned) =>
        /\ C10_Knot7IsUvFormula
        /\ \A a_v \in C10AV :
              AbsDiff(Mul(Div(a_v, call.r_v), f99_spline.kk[7] + call.r_v),
                      _f99uv(2700, a_v, call.r_v)) < 1000

C10_Witness ==
    /\ call.fn = "F99Extinction" /\ Returned
    /\ call.r_v = 3100000
    /\ f99_r_v = 3100000

====
